---- MODULE Spec2Model ----
(***************************************************************************)
(* The two Streamlit chat front-ends of the repository:                    *)
(*   "mcp"  src/mcp-use/streamlit-app.py                                   *)
(*   "api"  src/API-Tetsing/app.py                                         *)
(* One Streamlit process serves any number of browser sessions.  Each      *)
(* session has its own st.session_state (keys "messages" and "agent"); the *)
(* st.cache_resource entry of initialize_agent, os.environ and the file    *)
(* system belong to the process.                                           *)
(*                                                                         *)
(* The model follows one session in full (agent, messages, call) and keeps *)
(* of the other sessions what they share with it: the process state, which *)
(* their Initialize, reset and clean events change, and the set of agent   *)
(* handles they hold (otherAgents).  Their histories are their own.        *)
(*                                                                         *)
(* Strings are sequences of tokens, so that prefixes and emptiness of a    *)
(* formatted message are computed, not assumed.                            *)
(*                                                                         *)
(* A script run is one step, except at its only suspension point, the      *)
(* agent call: a submission is Submit (up to the call) followed by         *)
(* AgentReturns / AgentRaises (from the call's end to st.rerun).  While    *)
(* the session's call is outstanding its widgets are not operated.  The    *)
(* Streamlit and asyncio calls around the agent call (st.write,            *)
(* new_event_loop, loop.close) are taken not to fail, and "raises" means   *)
(* an exception of class Exception.                                        *)
(***************************************************************************)
EXTENDS Integers, Sequences, FiniteSets, TLC

VARIABLES
    variant,        \* which front-end the process runs
    descriptor,     \* browser_mcp.json in the working directory: "present" / "missing"
    profileDir,     \* ~/.config/browseruse/profiles/default exists
    tempDirs,       \* the mkdtemp("mcp_browser_") directories that exist
    userDataDir,    \* os.environ["BROWSERUSE_USER_DATA_DIR"]: <<>> (not set) or <<dir>>
    cache,          \* st.cache_resource entry of initialize_agent: <<>> or <<value>>
    constructions,  \* executions of the body of initialize_agent since process start
    bodyRuns,       \* executions of the body since the cache was last cleared
    agent,          \* st.session_state.agent of the session
    messages,       \* st.session_state.messages of the session
    call,           \* the session's outstanding agent.run call, <<>> when none
    otherAgents,    \* the agent handles in the session_state of the other sessions
    submitted,      \* the user texts injected since the history was last empty
    wasReset,       \* the session ran reset_agent and has not clicked Initialize Agent since
    afterClear,     \* the session's last sidebar event was the clear (kept through its next query)
    now,            \* wall clock, seconds
    appendedAt,     \* ghost: the clock reading at which each message of the history was appended
    console         \* the console script src/mcp-use/app.py: position, stdout, raised exceptions

vars == <<variant, descriptor, profileDir, tempDirs, userDataDir, cache,
          constructions, bodyRuns, agent, messages, call, otherAgents,
          submitted, wasReset, afterClear, now, appendedAt, console>>

\* the process state, the session's own state, the bookkeeping of the properties
process == <<profileDir, tempDirs, userDataDir, cache, constructions, bodyRuns>>

history == <<messages, submitted, appendedAt>>

----------------------------------------------------------------------------
(* Bounds *)

MaxMessages == 4

MaxConstructions == 2

NumExamples == 1

MaxClock == 2

DayLength == 2

Variants == {"mcp", "api"}

----------------------------------------------------------------------------
(* Values *)

Absent == [kind |-> "absent", id |-> 0]

NoneVal == [kind |-> "None", id |-> 0]

Handle(k) == [kind |-> "agent", id |-> k]

IsHandle(v) == v.kind = "agent"

NoCall == <<>>

Texts == {<<"q1">>, <<"q2">>}

AgentReplies == {<<"It is 10:00">>}

ExcMessages == {<<>>, <<"TimeoutFault">>}

ExampleQuestionList(v) ==
    IF v = "api"
    THEN << <<"What's the current time?">>,
            <<"Search for information about Python">>,
            <<"Find news about artificial intelligence">>,
            <<"What are the top programming languages?">>,
            <<"Search for weather information">> >>
    ELSE << <<"Find the best restaurant in San Francisco">>,
            <<"What's the weather like today?">>,
            <<"Search for recent news about AI">>,
            <<"Find information about Python programming">>,
            <<"What are the top tourist attractions in Paris?">> >>

Min(a, b) == IF a < b THEN a ELSE b

ExampleQuestions(v) ==
    {ExampleQuestionList(v)[i] : i \in 1..Min(NumExamples, Len(ExampleQuestionList(v)))}

\* mutant: the formatted time of day runs backwards
strftimeCountdown(t) == DayLength - 1 - (t % DayLength)

\* datetime.now().strftime("%H:%M:%S"): the time of day, the date dropped
strftime(t) == t % DayLength

Message(role, content) ==
    [role |-> role, content |-> content, timestamp |-> strftime(now)]

----------------------------------------------------------------------------
(* Which widgets a script run reaches *)

\* "agent" not in st.session_state or st.session_state.agent is None
NotReady == agent = Absent \/ agent = NoneVal

\* mcp: the sidebar comes after the st.stop() of the agent check;
\* api: the sidebar is drawn before the agent check
SidebarReached == IF variant = "api" THEN TRUE ELSE ~NotReady

\* st.chat_input is reached only past the agent check and its st.stop()
ChatInputReached == ~NotReady

Idle == call = NoCall

\* the console script before its first statement
ConsoleStart == [pc |-> "load_config", stdout |-> <<>>, raised |-> <<>>, result |-> <<>>]

Init ==
    /\ variant \in Variants
    /\ descriptor \in {"present", "missing"}
    /\ profileDir \in BOOLEAN
    /\ tempDirs = {}
    /\ userDataDir = <<>>
    /\ cache = <<>>
    /\ constructions = 0
    /\ bodyRuns = 0
    /\ agent = Absent
    /\ messages = <<>>
    /\ call = NoCall
    /\ otherAgents = {}
    /\ submitted = <<>>
    /\ wasReset = FALSE
    /\ afterClear = FALSE
    /\ now = 0
    /\ appendedAt = <<>>
    /\ console = ConsoleStart

----------------------------------------------------------------------------
(* Construction: initialize_agent under @st.cache_resource *)

\* clean_browser_profile: whether the default profile directory exists after
\* the call; shutil.rmtree may fail, which the function turns into a warning
clean_browser_profile(exists, rmOk) == IF exists /\ rmOk THEN FALSE ELSE exists

\* what the environment can make the body of initialize_agent hit
Faults(v) ==
    IF v = "api" THEN {"none", "mkdtemp", "config", "bedrock", "agent"}
                 ELSE {"none", "config", "bedrock", "agent"}

\* mutant: the missing descriptor file goes unnoticed
ConstructionResultIgnoresDescriptor(v, desc, fault, k) ==
    IF v = "api" /\ fault = "mkdtemp" THEN NoneVal
    ELSE IF fault \in {"config", "bedrock", "agent"} THEN NoneVal
    ELSE Handle(k)

\* the value the body of initialize_agent returns: the k-th execution's agent,
\* or None on any failure
ConstructionResult(v, desc, fault, k) ==
    IF v = "api" /\ fault = "mkdtemp" THEN NoneVal
    ELSE IF desc = "missing" THEN NoneVal
    ELSE IF fault \in {"config", "bedrock", "agent"} THEN NoneVal
    ELSE Handle(k)

\* create_browser_config: tempfile.mkdtemp and the environment variable
\* (only the api variant's body calls it)
DirCreated(v, fault) == v = "api" /\ fault # "mkdtemp"

\* mutant: the function is not cached, every call runs the body
CacheNeverHit == FALSE

\* mutant: a returned None is not stored, the next call runs the body again
CacheHitUnlessNone == cache # <<>> /\ cache[1] # NoneVal

\* st.cache_resource: a stored entry is returned without running the body;
\* a returned None is stored like any other value
CacheHit == cache # <<>>

\* the value a call of initialize_agent() returns
InitializeAgentValue(fault) ==
    IF CacheHit THEN cache[1]
    ELSE ConstructionResult(variant, descriptor, fault, constructions + 1)

\* what a call of initialize_agent() does to the process
initialize_agent(fault, rmOk) ==
    IF CacheHit
    THEN UNCHANGED process
    ELSE /\ constructions < MaxConstructions
         /\ cache' = <<InitializeAgentValue(fault)>>
         /\ constructions' = constructions + 1
         /\ bodyRuns' = bodyRuns + 1
         /\ IF variant = "api"
            THEN /\ profileDir' = clean_browser_profile(profileDir, rmOk)
                 /\ IF DirCreated(variant, fault)
                    THEN /\ tempDirs' = tempDirs \cup {constructions + 1}
                         /\ userDataDir' = <<constructions + 1>>
                    ELSE UNCHANGED <<tempDirs, userDataDir>>
            ELSE UNCHANGED <<profileDir, tempDirs, userDataDir>>

\* mcp: the first script run of the session constructs (or fetches) the agent
FirstRun ==
    /\ variant = "mcp"
    /\ agent = Absent
    /\ \E fault \in Faults(variant) :
          /\ agent' = InitializeAgentValue(fault)
          /\ initialize_agent(fault, TRUE)
    /\ UNCHANGED <<console, variant, descriptor, history, call, otherAgents, wasReset, afterClear, now>>

\* api: the "Initialize Agent" button, drawn only while the session is not ready
InitializeClick ==
    /\ variant = "api"
    /\ Idle
    /\ NotReady
    /\ \E fault \in Faults(variant), rmOk \in BOOLEAN :
          /\ agent' = InitializeAgentValue(fault)
          /\ initialize_agent(fault, rmOk)
    /\ wasReset' = FALSE
    /\ afterClear' = FALSE
    /\ UNCHANGED <<console, variant, descriptor, history, call, otherAgents, now>>

----------------------------------------------------------------------------
(* Sidebar controls *)

\* mutant: the clear empties the whole session state, the agent key included
ClearChatDropsAgent ==
    /\ SidebarReached
    /\ Idle
    /\ messages' = <<>>
    /\ submitted' = <<>>
    /\ appendedAt' = <<>>
    /\ afterClear' = TRUE
    /\ agent' = Absent
    /\ UNCHANGED <<console, variant, descriptor, process, call, otherAgents, wasReset, now>>

\* mutant: the clear button cancels an outstanding agent call
ClearChatCancelsCall ==
    /\ SidebarReached
    /\ messages' = <<>>
    /\ submitted' = <<>>
    /\ appendedAt' = <<>>
    /\ call' = NoCall
    /\ afterClear' = TRUE
    /\ UNCHANGED <<console, variant, descriptor, process, agent, otherAgents, wasReset, now>>

\* "Clear Chat" / "Clear Chat History"
ClearChat ==
    /\ SidebarReached
    /\ Idle
    /\ messages' = <<>>
    /\ submitted' = <<>>
    /\ appendedAt' = <<>>
    /\ afterClear' = TRUE
    /\ UNCHANGED <<console, variant, descriptor, process, agent, call, otherAgents, wasReset, now>>

\* reset_agent: the session's agent key is deleted, the cache of
\* initialize_agent cleared, the default browser profile cleaned
reset_agent(rmOk) ==
    /\ cache' = <<>>
    /\ bodyRuns' = 0
    /\ profileDir' = clean_browser_profile(profileDir, rmOk)
    /\ UNCHANGED <<tempDirs, userDataDir, constructions>>

\* mutant: the reset also empties the chat history
ResetAgentClearsHistory ==
    /\ variant = "api"
    /\ Idle
    /\ agent' = Absent
    /\ \E rmOk \in BOOLEAN : reset_agent(rmOk)
    /\ wasReset' = TRUE
    /\ afterClear' = FALSE
    /\ messages' = <<>>
    /\ submitted' = <<>>
    /\ appendedAt' = <<>>
    /\ UNCHANGED <<console, variant, descriptor, call, otherAgents, now>>

\* api: "Reset Agent"
ResetAgent ==
    /\ variant = "api"
    /\ Idle
    /\ agent' = Absent
    /\ \E rmOk \in BOOLEAN : reset_agent(rmOk)
    /\ wasReset' = TRUE
    /\ afterClear' = FALSE
    /\ UNCHANGED <<console, variant, descriptor, history, call, otherAgents, now>>

\* api: "Clean Browser Profile"
CleanProfileClick ==
    /\ variant = "api"
    /\ Idle
    /\ \E rmOk \in BOOLEAN : profileDir' = clean_browser_profile(profileDir, rmOk)
    /\ afterClear' = FALSE
    /\ UNCHANGED <<console, variant, descriptor, tempDirs, userDataDir, cache, constructions,
                   bodyRuns, agent, history, call, otherAgents, wasReset, now>>

\* an example-question button: the user message is appended, then st.rerun()
ExampleClick(q) ==
    /\ SidebarReached
    /\ Idle
    /\ Len(messages) < MaxMessages
    /\ messages' = Append(messages, Message("user", q))
    /\ submitted' = Append(submitted, [text |-> q, typed |-> FALSE])
    /\ appendedAt' = Append(appendedAt, now)
    /\ afterClear' = FALSE
    /\ UNCHANGED <<console, variant, descriptor, process, agent, call, otherAgents, wasReset, now>>

----------------------------------------------------------------------------
(* A chat-input submission *)

\* str(e) is e's message; traceback.format_exc() is one opaque token
FormatExc == <<"Traceback (most recent call last): ...">>

\* mutant: the except branch returns str(e) alone
ErrorTextBare(v, e) == e

\* the except branch of get_agent_response
ErrorText(v, e) ==
    IF v = "api"
    THEN <<"Error:", " ">> \o e \o <<"\n\n", "Full traceback:", "\n">> \o FormatExc
    ELSE <<"Error:", " ">> \o e \o <<"\n\n", "Traceback:", "\n">> \o FormatExc

\* get_agent_response: the result of agent.run, or the error text when it raises
get_agent_response(v, outcome) ==
    IF outcome.raised THEN ErrorText(v, outcome.text) ELSE outcome.text

\* the chat input up to the agent call: the user message is appended and
\* agent.run(prompt) starts on st.session_state.agent
Submit(t) ==
    /\ ChatInputReached
    /\ Idle
    /\ Len(messages) + 2 <= MaxMessages
    /\ messages' = Append(messages, Message("user", t))
    /\ call' = <<[agent |-> agent, query |-> t]>>
    /\ submitted' = Append(submitted, [text |-> t, typed |-> TRUE])
    /\ appendedAt' = Append(appendedAt, now)
    /\ UNCHANGED <<console, variant, descriptor, process, agent, otherAgents, wasReset, afterClear, now>>

\* mutant: a raise of the agent call escapes, nothing is appended for it
RespondDropsRaise(outcome) ==
    /\ ~Idle
    /\ messages' = IF outcome.raised THEN messages
                   ELSE Append(messages, Message("assistant", outcome.text))
    /\ appendedAt' = IF outcome.raised THEN appendedAt ELSE Append(appendedAt, now)
    /\ call' = NoCall
    /\ afterClear' = FALSE
    /\ UNCHANGED <<console, variant, descriptor, process, agent, otherAgents, submitted, wasReset, now>>

\* mutant: a raise of the agent call makes the session give up its agent
RespondForgetsAgentOnRaise(outcome) ==
    /\ ~Idle
    /\ messages' = Append(messages, Message("assistant", get_agent_response(variant, outcome)))
    /\ appendedAt' = Append(appendedAt, now)
    /\ call' = NoCall
    /\ agent' = IF outcome.raised THEN NoneVal ELSE agent
    /\ afterClear' = FALSE
    /\ UNCHANGED <<console, variant, descriptor, process, otherAgents, submitted, wasReset, now>>

\* from the end of the agent call to st.rerun(): the assistant message is appended
Respond(outcome) ==
    /\ ~Idle
    /\ messages' = Append(messages, Message("assistant", get_agent_response(variant, outcome)))
    /\ appendedAt' = Append(appendedAt, now)
    /\ call' = NoCall
    /\ afterClear' = FALSE
    /\ UNCHANGED <<console, variant, descriptor, process, agent, otherAgents, submitted, wasReset, now>>

AgentReturns(r) == Respond([raised |-> FALSE, text |-> r])

AgentRaises(e) == Respond([raised |-> TRUE, text |-> e])

----------------------------------------------------------------------------
(* The other sessions of the process *)

\* another session executes st.session_state.agent = initialize_agent()
\* (mcp: its first script run; api: its "Initialize Agent" button)
OtherInitializes ==
    /\ \E fault \in Faults(variant), rmOk \in BOOLEAN :
          /\ otherAgents' = IF IsHandle(InitializeAgentValue(fault))
                            THEN otherAgents \cup {InitializeAgentValue(fault)}
                            ELSE otherAgents
          /\ initialize_agent(fault, rmOk)
    /\ UNCHANGED <<console, variant, descriptor, agent, history, call, wasReset, afterClear, now>>

\* api: another session clicks "Reset Agent"; its own agent key is deleted
OtherResets ==
    /\ variant = "api"
    /\ \E rmOk \in BOOLEAN : reset_agent(rmOk)
    /\ otherAgents' \in {otherAgents} \cup {otherAgents \ {h} : h \in otherAgents}
    /\ UNCHANGED <<console, variant, descriptor, agent, history, call, wasReset, afterClear, now>>

\* api: another session clicks "Clean Browser Profile"
OtherCleansProfile ==
    /\ variant = "api"
    /\ \E rmOk \in BOOLEAN : profileDir' = clean_browser_profile(profileDir, rmOk)
    /\ UNCHANGED <<console, variant, descriptor, tempDirs, userDataDir, cache, constructions,
                   bodyRuns, agent, history, call, otherAgents, wasReset, afterClear, now>>

----------------------------------------------------------------------------
(* Environment *)

\* browser_mcp.json is put in place or removed
DescriptorChanges ==
    /\ descriptor' = IF descriptor = "present" THEN "missing" ELSE "present"
    /\ UNCHANGED <<console, variant, process, agent, history, call, otherAgents, wasReset,
                   afterClear, now>>

\* the wall clock advances
Tick ==
    /\ now < MaxClock
    /\ now' = now + 1
    /\ UNCHANGED <<console, variant, descriptor, process, agent, history, call, otherAgents,
                   wasReset, afterClear>>

Next ==
    \/ FirstRun
    \/ InitializeClick
    \/ ClearChat
    \/ ResetAgent
    \/ CleanProfileClick
    \/ \E q \in ExampleQuestions(variant) : ExampleClick(q)
    \/ \E t \in Texts : Submit(t)
    \/ \E r \in AgentReplies : AgentReturns(r)
    \/ \E e \in ExcMessages : AgentRaises(e)
    \/ OtherInitializes
    \/ OtherResets
    \/ OtherCleansProfile
    \/ DescriptorChanges

Spec == Init /\ [][Next]_vars

\* one session alone in the process while the wall clock advances: the steps
\* that make its agent ready, write its history or end its agent call
NextClock ==
    \/ FirstRun
    \/ InitializeClick
    \/ ClearChat
    \/ \E q \in ExampleQuestions(variant) : ExampleClick(q)
    \/ \E t \in Texts : Submit(t)
    \/ \E r \in AgentReplies : AgentReturns(r)
    \/ \E e \in ExcMessages : AgentRaises(e)
    \/ Tick

SpecClock == Init /\ [][NextClock]_vars

\* the agent call ends: agent.run returns or raises
AgentCallEnds ==
    \/ \E r \in AgentReplies : AgentReturns(r)
    \/ \E e \in ExcMessages : AgentRaises(e)

\* the sessions under the assumption that an outstanding agent call ends
SpecLive == Init /\ [][Next]_vars /\ WF_vars(AgentCallEnds)

----------------------------------------------------------------------------
(* The console variant: src/mcp-use/app.py, one query and no guard *)

\* what agent.run may return to the console script: any text, the empty
\* and the error-shaped ones included
ConsoleReplies == AgentReplies \cup {<<>>, <<"Error:", " ", "TimeoutFault">>}

\* the statements of main that construct something after the descriptor is loaded
ConsoleNextPc(pc) ==
    CASE pc = "load_config" -> "bedrock"
      [] pc = "bedrock" -> "llm"
      [] pc = "llm" -> "agent"
      [] pc = "agent" -> "run"

\* an exception nothing catches: the script ends with it, whatever it was doing
ConsoleCrash(at, e) ==
    console' = [console EXCEPT !.pc = "crashed", !.raised = Append(@, [at |-> at, msg |-> e])]

ConsoleFrame ==
    UNCHANGED <<variant, descriptor, process, agent, history, call, otherAgents,
                wasReset, afterClear, now>>

\* client = MCPClient.from_config_file("browser_mcp.json")
ConsoleLoadConfig ==
    /\ variant = "console"
    /\ console.pc = "load_config"
    /\ IF descriptor = "missing"
       THEN ConsoleCrash("load_config", <<"FileNotFoundError">>)
       ELSE \/ console' = [console EXCEPT !.pc = ConsoleNextPc(console.pc)]
            \/ \E e \in ExcMessages : ConsoleCrash("load_config", e)
    /\ ConsoleFrame

\* boto3.client(...), ChatBedrock(...), MCPAgent(...): each returns or raises
ConsoleConstruct ==
    /\ variant = "console"
    /\ console.pc \in {"bedrock", "llm", "agent"}
    /\ \/ console' = [console EXCEPT !.pc = ConsoleNextPc(console.pc)]
       \/ \E e \in ExcMessages : ConsoleCrash(console.pc, e)
    /\ ConsoleFrame

\* mutant: the query is guarded as in the UI variants, a raise becomes the result
ConsoleRunGuarded(outcome) ==
    /\ variant = "console"
    /\ console.pc = "run"
    /\ console' = [console EXCEPT
                     !.pc = "print",
                     !.result = get_agent_response("mcp", outcome),
                     !.raised = IF outcome.raised
                                THEN Append(@, [at |-> "run", msg |-> outcome.text])
                                ELSE @]
    /\ ConsoleFrame

\* result = await agent.run("Find the best restaurant in San Francisco")
ConsoleRun(outcome) ==
    /\ variant = "console"
    /\ console.pc = "run"
    /\ IF outcome.raised
       THEN ConsoleCrash("run", outcome.text)
       ELSE console' = [console EXCEPT !.pc = "print", !.result = outcome.text]
    /\ ConsoleFrame

\* print(f"\nResult: {result}") and the normal end of the script
ConsolePrint ==
    /\ variant = "console"
    /\ console.pc = "print"
    /\ console' = [console EXCEPT
                     !.pc = "exited",
                     !.stdout = Append(@, <<"\n", "Result:", " ">> \o console.result)]
    /\ ConsoleFrame

InitConsole ==
    /\ variant = "console"
    /\ descriptor \in {"present", "missing"}
    /\ profileDir \in BOOLEAN
    /\ tempDirs = {}
    /\ userDataDir = <<>>
    /\ cache = <<>>
    /\ constructions = 0
    /\ bodyRuns = 0
    /\ agent = Absent
    /\ messages = <<>>
    /\ call = NoCall
    /\ otherAgents = {}
    /\ submitted = <<>>
    /\ wasReset = FALSE
    /\ afterClear = FALSE
    /\ now = 0
    /\ appendedAt = <<>>
    /\ console = ConsoleStart

NextConsole ==
    \/ ConsoleLoadConfig
    \/ ConsoleConstruct
    \/ \E r \in ConsoleReplies : ConsoleRun([raised |-> FALSE, text |-> r])
    \/ \E e \in ExcMessages : ConsoleRun([raised |-> TRUE, text |-> e])
    \/ ConsolePrint
    \/ DescriptorChanges
    \/ Tick

SpecConsole == InitConsole /\ [][NextConsole]_vars

----------------------------------------------------------------------------
(* Helpers of the properties *)

Last(q) == q[Len(q)]

BeginsWith(str, prefix) ==
    /\ Len(str) >= Len(prefix)
    /\ SubSeq(str, 1, Len(prefix)) = prefix

AllTyped == \A i \in 1..Len(submitted) : submitted[i].typed

\* the step appends exactly one message to the history
AppendsOne ==
    /\ Len(messages') = Len(messages) + 1
    /\ SubSeq(messages', 1, Len(messages)) = messages

\* the step starts an agent call
CallStarts == Idle /\ call' # NoCall

----------------------------------------------------------------------------
(* C1: in each variant, once the agent calls of N typed submissions made   *)
(* from an empty history (no example click in between) have returned or    *)
(* raised, the history holds 2*N messages, user and assistant alternating, *)
(* and the k-th user message carries the k-th submitted text.              *)
C1_TwoMessagesPerTurn ==
    (Idle /\ AllTyped) =>
        /\ Len(messages) = 2 * Len(submitted)
        /\ \A k \in 1..Len(submitted) :
            /\ messages[2 * k - 1].role = "user"
            /\ messages[2 * k - 1].content = submitted[k].text
            /\ messages[2 * k].role = "assistant"

\* two typed turns with different texts are complete, the first answered by a raise
C1_Witness ==
    /\ Idle /\ AllTyped
    /\ Len(submitted) = 2
    /\ submitted[1].text # submitted[2].text
    /\ Len(messages) = 4
    /\ BeginsWith(messages[2].content, <<"Error:">>)
    /\ ~BeginsWith(messages[4].content, <<"Error:">>)

(* C2: when the agent call of a query raises, the script run still ends    *)
(* with the call closed, exactly one assistant message is appended for the *)
(* query, and its content is a non-empty string beginning with "Error:".   *)
C2_RaiseBecomesErrorMessage ==
    [][\A e \in ExcMessages :
          AgentRaises(e) =>
              /\ AppendsOne
              /\ call' = NoCall
              /\ Last(messages').role = "assistant"
              /\ Last(messages').content # <<>>
              /\ BeginsWith(Last(messages').content, <<"Error:">>)]_vars

\* a raise whose exception has an empty message has been answered
C2_Witness ==
    /\ Idle
    /\ messages # <<>>
    /\ Last(messages).role = "assistant"
    /\ Last(messages).content = ErrorText(variant, <<>>)

(* C3: the session's agent handle, once set, changes only by the session's *)
(* own reset; every query runs on the handle the session holds; and the    *)
(* body of initialize_agent runs at most once between process start and    *)
(* the first reset and between two consecutive resets, whichever sessions  *)
(* call it.                                                                *)
C3_OneConstructionPerReset ==
    /\ [](bodyRuns <= 1)
    /\ [](~Idle => (call[1].agent = agent /\ IsHandle(agent)))
    /\ [][IsHandle(agent) =>
            \/ agent' = agent
            \/ agent' = Absent /\ wasReset' /\ cache' = <<>>]_vars

\* after a reset and a second construction, the session has kept the new
\* handle through one answered query and runs its next query on it
C3_Witness ==
    /\ constructions = 2
    /\ bodyRuns = 1
    /\ ~Idle
    /\ Len(messages) = 3
    /\ call[1].agent = Handle(2)
    /\ agent = Handle(2)

(* C4: a construction that runs while browser_mcp.json is missing returns  *)
(* None, a session that takes its result is not ready, and no query is     *)
(* sent from a session whose agent is absent or None.                      *)
C4_MissingDescriptorNotReady ==
    /\ [][(constructions' # constructions /\ descriptor = "missing") =>
            /\ cache' = <<NoneVal>>
            /\ agent' # agent => agent' = NoneVal
            /\ otherAgents' = otherAgents]_vars
    /\ [][CallStarts => ~NotReady]_vars
    /\ [](NotReady => Idle)

\* the construction ran with the file missing: None is cached and held by the session
C4_Witness ==
    /\ descriptor = "missing"
    /\ constructions = 1
    /\ tempDirs = IF variant = "api" THEN {1} ELSE {}
    /\ cache = <<NoneVal>>
    /\ agent = NoneVal

(* C5: the clear empties the session's history and leaves the session's    *)
(* agent handle and the construction cache as they were; the query sent    *)
(* right after a clear runs on the handle held before it, with no          *)
(* construction.                                                           *)
C5_ClearKeepsAgent ==
    /\ [][ClearChat =>
            /\ messages' = <<>>
            /\ agent' = agent
            /\ cache' = cache
            /\ constructions' = constructions]_vars
    /\ [][(afterClear /\ CallStarts) =>
            /\ call'[1].agent = agent
            /\ agent' = agent
            /\ cache' = cache
            /\ constructions' = constructions]_vars
    /\ [](afterClear => (messages = <<>> \/ (Len(messages) = 1 /\ ~Idle)))

\* a query is outstanding right after a clear, on the handle constructed before it
C5_Witness ==
    /\ afterClear
    /\ ~Idle
    /\ Len(messages) = 1
    /\ constructions = 1
    /\ call[1].agent = Handle(1)
    /\ agent = Handle(1)

(* C6: in the api variant a reset leaves the session without agent and     *)
(* the cache empty; no query is accepted until Initialize Agent is clicked *)
(* again; and that click executes the body of initialize_agent anew.       *)
C6_InitializeAfterResetRebuilds ==
    [][/\ ResetAgent => (agent' = Absent /\ cache' = <<>>)
       /\ wasReset => call' = NoCall
       /\ (wasReset /\ ~wasReset') => constructions' = constructions + 1]_vars

(* C7: in the api variant a reset removes the scratch directory the        *)
(* preceding construction created and named in BROWSERUSE_USER_DATA_DIR.   *)
C7_ResetRemovesScratchDir ==
    [][ResetAgent =>
          \A d \in tempDirs : userDataDir = <<d>> => d \notin tempDirs']_vars

(* C8: with the agent ready, a click on an example question acts like      *)
(* typing its text: the user message is appended and the agent is called   *)
(* with that text.                                                         *)
C8_ExampleClickRunsAgent ==
    [][\A q \in ExampleQuestions(variant) :
          (ExampleClick(q) /\ ~NotReady) =>
              /\ AppendsOne
              /\ Last(messages') = Message("user", q)
              /\ call' = <<[agent |-> agent, query |-> q]>>]_vars

(* C9: a raise of the agent call leaves the session's agent handle as it   *)
(* was, a handle and not None, with the call closed, and no construction   *)
(* runs; the next submission is run on that handle.                        *)
C9_RaiseKeepsSessionReady ==
    /\ [][\A e \in ExcMessages :
            AgentRaises(e) =>
                /\ agent' = agent
                /\ IsHandle(agent')
                /\ call' = NoCall
                /\ cache' = cache
                /\ constructions' = constructions]_vars
    /\ [][(/\ CallStarts
           /\ messages # <<>>
           /\ BeginsWith(Last(messages).content, <<"Error:">>)) =>
                /\ call'[1].agent = agent
                /\ IsHandle(agent)
                /\ agent' = agent
                /\ constructions' = constructions]_vars

\* the query after a raised one is outstanding on the handle that was constructed
C9_Witness ==
    /\ ~Idle
    /\ Len(messages) = 3
    /\ BeginsWith(messages[2].content, <<"Error:">>)
    /\ constructions = 1
    /\ call[1].agent = Handle(1)
    /\ agent = Handle(1)

(* C10: no two sessions hold the same agent handle: the handle of the      *)
(* session is held by no other session.                                    *)
C10_HandleHeldByOneSession ==
    IsHandle(agent) => agent \notin otherAgents

(* C11: once a construction has failed, None stays cached and the session *)
(* stays not ready through every event that is not a reset (Initialize     *)
(* clicks, clears, example clicks, the descriptor file coming back); only  *)
(* a reset empties the cache, and a construction that then succeeds makes  *)
(* the session that ran it ready.                                          *)
C11_FailedUntilReset ==
    /\ [][(agent # NoneVal /\ agent' = NoneVal) => cache' = <<NoneVal>>]_vars
    /\ [][cache = <<NoneVal>> =>
            \/ cache' = cache
            \/ cache' = <<>> /\ (ResetAgent \/ OtherResets)]_vars
    /\ [][(agent = NoneVal /\ cache = <<NoneVal>>) =>
            (agent' = NoneVal \/ ResetAgent)]_vars
    /\ [][(/\ cache = <<>>
           /\ constructions' # constructions
           /\ agent' # agent
           /\ IsHandle(cache'[1])) => (agent' = cache'[1] /\ ~NotReady')]_vars

\* the failed session has seen an example click, the descriptor file is in
\* place, and the session is still not ready
C11_Witness ==
    /\ variant = "api"
    /\ agent = NoneVal
    /\ cache = <<NoneVal>>
    /\ descriptor = "present"
    /\ constructions = 1
    /\ ~wasReset
    /\ Len(messages) = 1

(* C12: the console script prints its one "Result:" line and ends         *)
(* normally exactly when the descriptor load, the three constructions and  *)
(* the query all succeed; when any of them raises, the script ends with    *)
(* that exception and prints no result line.                               *)
C12_ConsoleUnguarded ==
    /\ console.pc = "exited" <=> console.stdout # <<>>
    /\ console.pc = "crashed" <=> console.raised # <<>>
    /\ console.pc = "exited" =>
          /\ console.raised = <<>>
          /\ console.stdout = << <<"\n", "Result:", " ">> \o console.result >>
    /\ console.pc = "crashed" =>
          /\ console.stdout = <<>>
          /\ Len(console.raised) = 1

\* the query raised with an empty message: the script has ended with it, nothing printed
C12_Witness ==
    /\ console.pc = "crashed"
    /\ console.raised = <<[at |-> "run", msg |-> <<>>]>>
    /\ console.stdout = <<>>

(* C13: the chat history is append-only except for clear: every step      *)
(* leaves it unchanged, appends exactly one message at its end, or (the    *)
(* clear button only) empties it; Initialize Agent, Reset Agent and Clean  *)
(* Browser Profile leave it unchanged.                                     *)
C13_AppendOnlyExceptClear ==
    /\ [][\/ messages' = messages
          \/ AppendsOne
          \/ messages' = <<>> /\ ClearChat]_vars
    /\ [][(FirstRun \/ InitializeClick \/ ResetAgent \/ CleanProfileClick)
             => messages' = messages]_vars

\* a reset has acted on a session with two messages, which are still there
C13_Witness ==
    /\ wasReset
    /\ agent = Absent
    /\ cache = <<>>
    /\ Len(messages) = 2
    /\ messages[2].role = "assistant"

(* C14: a user message is appended to the history only from the Ready      *)
(* state: no step appends a user message while the session's agent handle  *)
(* is absent or None, whether it comes from the chat input or from an      *)
(* example-question button.                                                *)
C14_UserMessageOnlyWhenReady ==
    [][(AppendsOne /\ Last(messages').role = "user") => ~NotReady]_vars

(* C15: every typed query that enters Awaiting eventually brings the      *)
(* session back to Ready with its assistant message appended, provided the *)
(* agent call eventually returns or raises; the session leaves Awaiting by *)
(* no other event.                                                         *)
C15_AwaitingEndsInReady ==
    /\ ~Idle ~> (/\ Idle
                 /\ ~NotReady
                 /\ Len(messages) >= 2
                 /\ messages[Len(messages) - 1].role = "user"
                 /\ Last(messages).role = "assistant")
    /\ [][(~Idle /\ Idle') =>
             /\ AgentCallEnds
             /\ AppendsOne
             /\ Last(messages).role = "user"
             /\ Last(messages').role = "assistant"
             /\ ~NotReady']_vars
    /\ [][~Idle => (call' = call \/ AgentCallEnds)]_vars

\* two typed queries have been answered, the second by a raise
C15_Witness ==
    /\ Idle
    /\ ~NotReady
    /\ AllTyped
    /\ Len(messages) = 4
    /\ messages[3].role = "user"
    /\ messages[4].role = "assistant"
    /\ \E e \in ExcMessages : messages[4].content = ErrorText(variant, e)

\* the stored timestamps of messages i < j are in order
TimestampsInOrder(i, j) == messages[i].timestamp <= messages[j].timestamp

\* messages i and j were appended on the same calendar day
SameDay(i, j) == appendedAt[i] \div DayLength = appendedAt[j] \div DayLength

(* C16, as stated: the timestamps stored in the history are non-decreasing *)
(* in history order.                                                       *)
C16_TimestampsNonDecreasing ==
    \A i, j \in 1..Len(messages) : i < j => TimestampsInOrder(i, j)

(* C16, amended: the timestamps of two messages of the history appended    *)
(* on the same calendar day are non-decreasing in history order; across    *)
(* midnight the time of day starts again from 00:00:00.                    *)
C16_TimestampsNonDecreasingWithinDay ==
    /\ Len(appendedAt) = Len(messages)
    /\ \A i \in 1..Len(messages) : messages[i].timestamp = strftime(appendedAt[i])
    /\ \A i, j \in 1..Len(messages) : (i < j /\ SameDay(i, j)) => TimestampsInOrder(i, j)

\* two messages appended at different seconds of one day
C16_Witness ==
    /\ Len(messages) >= 2
    /\ SameDay(1, 2)
    /\ appendedAt[1] < appendedAt[2]
    /\ messages[1].timestamp < messages[2].timestamp

(* C17: in the api variant at most one scratch browser-profile directory   *)
(* created by construction exists at any time: the number of mkdtemp       *)
(* directories created and not yet removed never exceeds one.              *)
C17_AtMostOneScratchDir ==
    variant = "api" => Cardinality(tempDirs) <= 1

====
